---- MODULE Spec2Model ----
(***************************************************************************)
(* A model of the ES class of src/server/es/index.js: the mapping cache     *)
(* (initialize, getESFields, getESIndexByType), the single page query       *)
(* (query) and the scroll export loop (scrollQuery), together with the      *)
(* search engine they talk to.                                              *)
(*                                                                          *)
(* JavaScript values are encoded as follows.  A value that may be           *)
(* `undefined` and is not a string is an option: None is undefined and      *)
(* Some(v) is v.  A string that may be undefined uses the sentinel          *)
(* Undefined.  An object is a function from its keys to its values.         *)
(***************************************************************************)
EXTENDS Integers, Sequences, FiniteSets, TLC

\* ------------------------------------------------------------------------
\* Bounds of the model
\* ------------------------------------------------------------------------

\* Most non-empty pages the engine serves on one cursor before it is exhausted.
MaxPages == 2
\* Most documents the engine puts in one page.
MaxPageSize == 2
\* Most runs of initialize() in one behaviour.
MaxInits == 2
\* Most (index, type) pairs of a configuration given to getESIndexByType.
MaxIndices == 2

\* ------------------------------------------------------------------------
\* Encoding of JavaScript values
\* ------------------------------------------------------------------------

None == << >>
Some(x) == << x >>
Undefined == "undefined"

\* The empty object literal {}.
EmptyObject == [k \in {} |-> None]

\* obj[key] = value on an object.
SetKey(obj, key, value) ==
  [k \in (DOMAIN obj) \cup {key} |-> IF k = key THEN value ELSE obj[k]]

\* !s for a string that may be undefined: undefined and "" are falsy.
Falsy(s) == s = Undefined \/ s = ""

\* ------------------------------------------------------------------------
\* Configuration and engine
\* ------------------------------------------------------------------------

\* this.config.indices: the configured (index, type) pairs.
Indices ==
  << [index |-> "A", type |-> "tA"], [index |-> "B", type |-> "tB"] >>

\* The engine's mapping of an index: field -> { type }.
EngineProperties(esIndex) ==
  IF esIndex = "A"
    THEN [f1 |-> [type |-> "keyword"], f2 |-> [type |-> "long"]]
    ELSE [g1 |-> [type |-> "text"]]

\* The body of a successful getMapping response: one alias, whose mappings
\* hold the properties of the requested type.
GetMappingBody(esIndex, esType) ==
  [alias |-> esIndex,
   mappings |-> (esType :> [properties |-> EngineProperties(esIndex)])]

\* The engine's result list of a search, in the engine's order: documents
\* need not be distinct nor sorted.
HitPattern == << "d2", "d1", "d1", "d3" >>
Hit(k) == HitPattern[((k - 1) % Len(HitPattern)) + 1]

\* ------------------------------------------------------------------------
\* State
\* ------------------------------------------------------------------------

Calls == {"c1", "c2"}

VARIABLES
  fieldTypes,    \* this.fieldTypes: None or Some(index -> option of field map)
  initPc,        \* position of initialize(): "idle", "awaiting", "done"
  promiseList,   \* the per index promises of the running initialize()
  initCount,     \* runs of initialize() started so far
  installed,     \* this.fieldTypes as it was when the running initialize() began
  observed,      \* the last result of getESFields
  call,          \* call[c]: the activation of scrollQuery call c
  engine,        \* the engine's cursors: next unused handle, pages and handles given
  queryBody,     \* the queryBody argument of query()
  sentBody,      \* the body query() handed to client.search
  queryPc,       \* position of query()
  queryResult,   \* what the promise of query() resolved to
  searchOutcome, \* how client.search answered query(): "none", "ok", "error"
  typeConfig,    \* config.indices of the getESIndexByType instance
  typeResult     \* outcome of getESIndexByType

vars == << fieldTypes, initPc, promiseList, initCount, installed, observed,
           call, engine, queryBody, sentBody, queryPc, queryResult,
           searchOutcome, typeConfig, typeResult >>

cacheVars == << fieldTypes, initPc, promiseList, initCount, installed >>
queryVars == << queryBody, sentBody, queryPc, queryResult, searchOutcome >>
typeVars == << typeConfig, typeResult >>

\* ------------------------------------------------------------------------
\* Errors
\* ------------------------------------------------------------------------

NoError == [name |-> "none", code |-> None, message |-> "", names |-> << >>]

\* new CodedError(400, 'Invalid es index or es type name')
InvalidNameError ==
  [name |-> "CodedError", code |-> Some(400),
   message |-> "Invalid es index or es type name", names |-> << >>]

\* new CodedError(400, `Invalid fields: "${fieldsNotBelong.join('", "')}"`):
\* the message lists the names in the order of fieldsNotBelong.
InvalidFieldsError(fieldsNotBelong) ==
  [name |-> "CodedError", code |-> Some(400),
   message |-> "Invalid fields", names |-> fieldsNotBelong]

\* new CodedError(400, `Invalid es type: "${esType}"`)
InvalidTypeError(esType) ==
  [name |-> "CodedError", code |-> Some(400),
   message |-> "Invalid es type", names |-> << esType >>]

\* The TypeError of reading a property of undefined.
TypeError ==
  [name |-> "TypeError", code |-> None, message |-> "", names |-> << >>]

\* The rejection of a client call by the transport or the engine.
ResponseError ==
  [name |-> "ResponseError", code |-> None, message |-> "", names |-> << >>]

\* ------------------------------------------------------------------------
\* Mapping cache: _getESFieldsTypes, initialize, getESFields
\* ------------------------------------------------------------------------

\* The success handler of _getESFieldsTypes: the field -> type dictionary of
\* the first alias of the response body.
ExtractFieldTypes(body, esType) ==
  LET mappingObj == body.mappings[esType].properties
  IN  [field \in DOMAIN mappingObj |-> mappingObj[field].type]

\* What the promise of _getESFieldsTypes(...).then(res => ({index, fieldTypes}))
\* resolves to: the field types when getMapping succeeds, undefined when it
\* fails (the error handler only traces the message and returns nothing).
ResolvedFieldTypes(cfg, ok) ==
  IF ok THEN Some(ExtractFieldTypes(GetMappingBody(cfg.index, cfg.type), cfg.type))
        ELSE None

\* resultList.forEach(res => { this.fieldTypes[res.index] = res.fieldTypes })
\* from entry i on.
RECURSIVE ForEachAssign(_, _, _)
ForEachAssign(obj, resultList, i) ==
  IF i > Len(resultList) THEN obj
  ELSE ForEachAssign(SetKey(obj, resultList[i].index, resultList[i].fieldTypes),
                     resultList, i + 1)

\* No getESFields result has been recorded.
NoObservation ==
  [taken |-> FALSE, during |-> FALSE, esIndex |-> Undefined,
   result |-> [threw |-> FALSE, value |-> EmptyObject]]

NoPromises == [i \in 1..Len(Indices) |->
                 [state |-> "none", index |-> Indices[i].index, fieldTypes |-> None]]

\* initialize() up to its await: the cache is set to {} and one getMapping
\* is started per configured index.
InitializeStart ==
  /\ initPc \in {"idle", "done"}
  /\ initCount < MaxInits
  /\ installed' = fieldTypes
  /\ fieldTypes' = Some(EmptyObject)
  /\ promiseList' = [i \in 1..Len(Indices) |->
                       [state |-> "pending", index |-> Indices[i].index,
                        fieldTypes |-> None]]
  /\ initPc' = "awaiting"
  /\ initCount' = initCount + 1
  /\ observed' = NoObservation
  /\ UNCHANGED << call, engine, queryVars, typeVars >>

\* getMapping of configured index i succeeds.
MappingOk(i) ==
  /\ initPc = "awaiting"
  /\ promiseList[i].state = "pending"
  /\ promiseList' = [promiseList EXCEPT
                       ![i].state = "resolved",
                       ![i].fieldTypes = ResolvedFieldTypes(Indices[i], TRUE)]
  /\ UNCHANGED << fieldTypes, initPc, initCount, installed, observed, call,
                  engine, queryVars, typeVars >>

\* getMapping of configured index i fails.
MappingFail(i) ==
  /\ initPc = "awaiting"
  /\ promiseList[i].state = "pending"
  /\ promiseList' = [promiseList EXCEPT
                       ![i].state = "resolved",
                       ![i].fieldTypes = ResolvedFieldTypes(Indices[i], FALSE)]
  /\ UNCHANGED << fieldTypes, initPc, initCount, installed, observed, call,
                  engine, queryVars, typeVars >>

\* PromiseAllResolved resolving with the first promise, as Promise.race does.
PromiseAnyResolved(list) ==
  \E i \in 1..Len(list) : list[i].state = "resolved"

\* Promise.all(promiseList) has resolved: every promise of the list has
\* (none of them rejects).
PromiseAllResolved(list) ==
  \A i \in 1..Len(list) : list[i].state = "resolved"

\* initialize() after Promise.all has resolved: every result is stored.
InitializeFinish ==
  /\ initPc = "awaiting"
  /\ PromiseAllResolved(promiseList)
  /\ fieldTypes' = Some(ForEachAssign(fieldTypes[1], promiseList, 1))
  /\ initPc' = "done"
  /\ UNCHANGED << promiseList, initCount, installed, observed, call,
                  engine, queryVars, typeVars >>

\* getESFieldTypeMappingByIndex(esIndex) on cache ft: this.fieldTypes[esIndex],
\* undefined when there is no such key; it throws when this.fieldTypes is
\* undefined.
GetESFieldTypeMappingByIndex(ft, esIndex) ==
  IF ft = None THEN [threw |-> TRUE, value |-> None]
  ELSE [threw |-> FALSE,
        value |-> IF esIndex \in DOMAIN ft[1] THEN ft[1][esIndex] ELSE None]

\* Object.keys(this.fieldTypes[index]) throws when this.fieldTypes is
\* undefined, or has no such key, or holds undefined under it.
KeysThrow(ft, index) ==
  \/ ft = None
  \/ index \notin DOMAIN ft[1]
  \/ ft[1][index] = None

\* The res object getESFields builds, one record per configured index from
\* entry i on (a later entry of the same index replaces an earlier one).
RECURSIVE FieldsRecords(_, _, _)
FieldsRecords(ft, res, i) ==
  IF i > Len(Indices) THEN res
  ELSE FieldsRecords(ft,
         SetKey(res, Indices[i].index,
                [index |-> Indices[i].index, type |-> Indices[i].type,
                 fields |-> DOMAIN ft[1][Indices[i].index][1]]),
         i + 1)

\* getESFields(esIndex) on cache ft.  threw: a TypeError was thrown.  value:
\* the records returned, all of them when esIndex is undefined, else the one
\* of esIndex (no record: the call returned undefined).
GetESFields(ft, esIndex) ==
  IF \E i \in 1..Len(Indices) : KeysThrow(ft, Indices[i].index)
    THEN [threw |-> TRUE, value |-> EmptyObject]
    ELSE LET res == FieldsRecords(ft, EmptyObject, 1)
         IN  [threw |-> FALSE,
              value |-> IF esIndex = Undefined THEN res
                        ELSE [k \in (DOMAIN res) \cap {esIndex} |-> res[k]]]

\* The esIndex arguments tried: none, the configured indices, another one.
IndexArgs == {Undefined, "", "A", "B", "C"}

\* A caller reads the field lists.
CallGetESFields(esIndex) ==
  /\ observed' = [taken |-> TRUE, during |-> initPc = "awaiting",
                  esIndex |-> esIndex, result |-> GetESFields(fieldTypes, esIndex)]
  /\ UNCHANGED << cacheVars, call, engine, queryVars, typeVars >>

\* ------------------------------------------------------------------------
\* scrollQuery
\* ------------------------------------------------------------------------

\* _.difference(fields, cached): the names of fields, in order, that are not
\* cached names; [] when fields is undefined.
Difference(fields, cached) ==
  IF fields = None THEN << >>
  ELSE SelectSeq(fields[1], LAMBDA name : name \notin cached)

\* Validate reading the cached field list before it checks the names.
ValidateCacheFirst(ft, esIndex, esType, fields) ==
  LET got == GetESFields(ft, esIndex)
  IN  IF got.threw
        THEN [error |-> TypeError, consulted |-> TRUE]
        ELSE IF Falsy(esIndex) \/ Falsy(esType)
          THEN [error |-> InvalidNameError, consulted |-> TRUE]
          ELSE IF esIndex \notin DOMAIN got.value
            THEN [error |-> TypeError, consulted |-> TRUE]
            ELSE LET fieldsNotBelong ==
                       Difference(fields, got.value[esIndex].fields)
                 IN  IF Len(fieldsNotBelong) > 0
                       THEN [error |-> InvalidFieldsError(fieldsNotBelong),
                             consulted |-> TRUE]
                       ELSE [error |-> NoError, consulted |-> TRUE]

\* Validate guarding the read of the cache: when there is no field list to
\* check against, the check of the fields is skipped.
ValidateIgnoresThrow(ft, esIndex, esType, fields) ==
  IF Falsy(esIndex) \/ Falsy(esType)
    THEN [error |-> InvalidNameError, consulted |-> FALSE]
    ELSE LET got == GetESFields(ft, esIndex)
         IN  IF got.threw \/ esIndex \notin DOMAIN got.value
               THEN [error |-> NoError, consulted |-> TRUE]
               ELSE LET fieldsNotBelong ==
                          Difference(fields, got.value[esIndex].fields)
                    IN  IF Len(fieldsNotBelong) > 0
                          THEN [error |-> InvalidFieldsError(fieldsNotBelong),
                                consulted |-> TRUE]
                          ELSE [error |-> NoError, consulted |-> TRUE]

\* The checks scrollQuery makes before any request.  error: what is thrown
\* (NoError: nothing).  consulted: getESFields was called.
Validate(ft, esIndex, esType, fields) ==
  IF Falsy(esIndex) \/ Falsy(esType)
    THEN [error |-> InvalidNameError, consulted |-> FALSE]
    ELSE LET got == GetESFields(ft, esIndex)
         IN  IF got.threw \/ esIndex \notin DOMAIN got.value
               THEN [error |-> TypeError, consulted |-> TRUE]
               ELSE LET fieldsNotBelong ==
                          Difference(fields, got.value[esIndex].fields)
                    IN  IF Len(fieldsNotBelong) > 0
                          THEN [error |-> InvalidFieldsError(fieldsNotBelong),
                                consulted |-> TRUE]
                          ELSE [error |-> NoError, consulted |-> TRUE]

\* A scrollQuery activation that has not been called.
IdleCall ==
  [pc |-> "idle", esIndex |-> Undefined, esType |-> Undefined, fields |-> None,
   currentBatch |-> None, scrollID |-> None, totalData |-> << >>,
   batchSize |-> 0, error |-> NoError, returned |-> None, netlog |-> << >>,
   consulted |-> FALSE]

\* A request handed to the client.
Request(op, scrollID) == [op |-> op, scroll_id |-> scrollID]

\* hits.hits.map(item => item._source)
Sources(body) == [j \in 1..Len(body.hits.hits) |-> body.hits.hits[j]._source]

\* Concat with the new page put in front of the accumulated documents.
ConcatInFront(totalData, body) == Sources(body) \o totalData

\* totalData.concat(currentBatch.hits.hits.map(item => item._source))
Concat(totalData, body) == totalData \o Sources(body)

\* LoopContinues with the bound off by one: a page of one document ends
\* the loop.
LoopContinuesAboveOne(currentBatch, batchSize) ==
  currentBatch = None \/ batchSize > 1

\* LoopContinues comparing with >=: an empty batch does not end the loop.
LoopContinuesOnEmpty(currentBatch, batchSize) ==
  currentBatch = None \/ batchSize >= 0

\* The loop condition !currentBatch || batchSize > 0.
LoopContinues(currentBatch, batchSize) == currentBatch = None \/ batchSize > 0

\* NextRequest with the scroll id kept on the instance instead of in the
\* activation: a call that has none of its own takes the one another call
\* holds.
NextRequestSharedScrollID(rec) ==
  LET held == {call[d].scrollID : d \in DOMAIN call} \ {None}
      scrollID == IF rec.scrollID = None /\ held # {}
                    THEN CHOOSE s \in held : TRUE
                    ELSE rec.scrollID
  IN  IF LoopContinues(rec.currentBatch, rec.batchSize)
        THEN IF scrollID = None
               THEN [rec EXCEPT !.pc = "awaitSearch",
                                !.netlog = Append(@, Request("search", None))]
               ELSE [rec EXCEPT !.pc = "awaitScroll",
                                !.netlog = Append(@, Request("scroll", scrollID))]
        ELSE [rec EXCEPT !.pc = "awaitClear",
                         !.netlog = Append(@, Request("clearScroll", scrollID))]

\* NextRequest without the release: when the loop ends scrollQuery returns.
NextRequestSkipsRelease(rec) ==
  IF LoopContinues(rec.currentBatch, rec.batchSize)
    THEN IF rec.scrollID = None
           THEN [rec EXCEPT !.pc = "awaitSearch",
                            !.netlog = Append(@, Request("search", None))]
           ELSE [rec EXCEPT !.pc = "awaitScroll",
                            !.netlog = Append(@, Request("scroll", rec.scrollID))]
    ELSE [rec EXCEPT !.pc = "returned", !.returned = Some(rec.totalData)]

\* From the loop test to the next await: the first search while no scroll id
\* is known, a continuation while the loop goes on, the release after it.
NextRequest(rec) ==
  IF LoopContinues(rec.currentBatch, rec.batchSize)
    THEN IF rec.scrollID = None
           THEN [rec EXCEPT !.pc = "awaitSearch",
                            !.netlog = Append(@, Request("search", None))]
           ELSE [rec EXCEPT !.pc = "awaitScroll",
                            !.netlog = Append(@, Request("scroll", rec.scrollID))]
    ELSE [rec EXCEPT !.pc = "awaitClear",
                     !.netlog = Append(@, Request("clearScroll", rec.scrollID))]

\* OnBatch taking the scroll id of the first response only.
OnBatchKeepsFirstHandle(rec, body) ==
  NextRequest([rec EXCEPT !.currentBatch = Some(body),
                          !.scrollID = IF rec.scrollID = None
                                         THEN Some(body._scroll_id)
                                         ELSE rec.scrollID,
                          !.batchSize = Len(body.hits.hits),
                          !.totalData = Concat(@, body)])

\* A response body arrived: it becomes the current batch, its scroll id and
\* size are taken and its documents merged; then the loop test.
OnBatch(rec, body) ==
  NextRequest([rec EXCEPT !.currentBatch = Some(body),
                          !.scrollID = Some(body._scroll_id),
                          !.batchSize = Len(body.hits.hits),
                          !.totalData = Concat(@, body)])

\* OnSearchRejected going on to the release with the scroll id it has.
OnSearchRejectedReleases(rec) ==
  [rec EXCEPT !.pc = "awaitClear",
              !.netlog = Append(@, Request("clearScroll", rec.scrollID))]

\* The first search was rejected: its handler logs and yields undefined, and
\* reading res.body then throws.
OnSearchRejected(rec) == [rec EXCEPT !.pc = "failed", !.error = TypeError]

\* OnScrollRejected catching the rejection and leaving the loop: the release
\* follows and the documents merged so far are returned.
OnScrollRejectedBreaks(rec) ==
  [rec EXCEPT !.pc = "awaitClear",
              !.netlog = Append(@, Request("clearScroll", rec.scrollID))]

\* A continuation was rejected: the rejection leaves scrollQuery.
OnScrollRejected(rec) == [rec EXCEPT !.pc = "failed", !.error = ResponseError]

\* The fields arguments tried.
FieldsArgs ==
  {None, Some(<< >>), Some(<< "f2", "f1" >>), Some(<< "g1" >>),
   Some(<< "zz", "f1", "yy", "zz" >>)}

TypeArgs == {Undefined, "", "tA", "tB"}

\* scrollQuery is called: validation, then the first request.
ScrollQueryStart(c, esIndex, esType, fields) ==
  /\ call[c].pc = "idle"
  /\ LET v == Validate(fieldTypes, esIndex, esType, fields)
         rec == [call[c] EXCEPT !.esIndex = esIndex, !.esType = esType,
                                !.fields = fields, !.consulted = v.consulted]
     IN  call' = [call EXCEPT ![c] =
                    IF v.error = NoError THEN NextRequest(rec)
                    ELSE [rec EXCEPT !.pc = "failed", !.error = v.error]]
  /\ UNCHANGED << cacheVars, observed, engine, queryVars, typeVars >>

\* Documents the engine has served on the cursor of call c.
RECURSIVE SumLen(_)
SumLen(pages) == IF pages = << >> THEN 0 ELSE Len(Head(pages)) + SumLen(Tail(pages))

NonEmptyPages(pages) == Cardinality({k \in 1..Len(pages) : Len(pages[k]) > 0})

\* The page sizes the engine may answer call c with.
PageSizes(c) ==
  IF NonEmptyPages(engine.served[c]) < MaxPages THEN 0..MaxPageSize ELSE {0}

\* The documents of the page of n hits the engine serves next to call c:
\* documents of the index the call searches.
EnginePage(c, n) ==
  [j \in 1..n |-> [index |-> call[c].esIndex,
                   doc |-> Hit(SumLen(engine.served[c]) + j)]]

\* The response body of the engine: the hits of a page, each carrying its
\* document as _source, and a scroll id.
ResponseBody(page, handle) ==
  [_scroll_id |-> handle,
   hits |-> [hits |-> [j \in 1..Len(page) |-> [_source |-> page[j]]]]]

\* The engine after answering call c with page and handle: fresh tells
\* whether handle is a new one.
EngineAfter(c, page, handle, fresh) ==
  [next |-> IF fresh THEN engine.next + 1 ELSE engine.next,
   served |-> [engine.served EXCEPT ![c] = Append(@, page)],
   handles |-> [engine.handles EXCEPT ![c] = Append(@, handle)]]

\* The first search of call c succeeds with a page of n hits.
SearchOk(c, n) ==
  /\ call[c].pc = "awaitSearch"
  /\ n \in PageSizes(c)
  /\ LET page == EnginePage(c, n)
     IN  /\ call' = [call EXCEPT ![c] = OnBatch(@, ResponseBody(page, engine.next))]
         /\ engine' = EngineAfter(c, page, engine.next, TRUE)
  /\ UNCHANGED << cacheVars, observed, queryVars, typeVars >>

\* The first search of call c fails.
SearchFail(c) ==
  /\ call[c].pc = "awaitSearch"
  /\ call' = [call EXCEPT ![c] = OnSearchRejected(@)]
  /\ UNCHANGED << cacheVars, observed, engine, queryVars, typeVars >>

\* A continuation of call c succeeds with a page of n hits; the engine keeps
\* the scroll id or rotates it.
ScrollOk(c, n, rotate) ==
  /\ call[c].pc = "awaitScroll"
  /\ n \in PageSizes(c)
  /\ LET page == EnginePage(c, n)
         handle == IF rotate THEN engine.next
                   ELSE engine.handles[c][Len(engine.handles[c])]
     IN  /\ call' = [call EXCEPT ![c] = OnBatch(@, ResponseBody(page, handle))]
         /\ engine' = EngineAfter(c, page, handle, rotate)
  /\ UNCHANGED << cacheVars, observed, queryVars, typeVars >>

\* A continuation of call c fails.
ScrollFail(c) ==
  /\ call[c].pc = "awaitScroll"
  /\ call' = [call EXCEPT ![c] = OnScrollRejected(@)]
  /\ UNCHANGED << cacheVars, observed, engine, queryVars, typeVars >>

\* OnReleased releasing the scroll id once more before it returns.
OnReleasedReleasesAgain(rec) ==
  [rec EXCEPT !.netlog = Append(@, Request("clearScroll", rec.scrollID))]

\* clearScroll resolved: scrollQuery returns totalData.
OnReleased(rec) ==
  [rec EXCEPT !.pc = "returned", !.returned = Some(rec.totalData)]

\* The release of call c succeeds: scrollQuery returns totalData.
ClearOk(c) ==
  /\ call[c].pc = "awaitClear"
  /\ call' = [call EXCEPT ![c] = OnReleased(@)]
  /\ UNCHANGED << cacheVars, observed, engine, queryVars, typeVars >>

\* The release of call c fails: the rejection leaves scrollQuery.
ClearFail(c) ==
  /\ call[c].pc = "awaitClear"
  /\ call' = [call EXCEPT ![c].pc = "failed", ![c].error = ResponseError]
  /\ UNCHANGED << cacheVars, observed, engine, queryVars, typeVars >>

\* ------------------------------------------------------------------------
\* query
\* ------------------------------------------------------------------------

\* The values a key of a query body holds, as tokens: undefined, null, the
\* number 0, the boolean false, the empty string and an object.
JsUndefined == "undefined"
JsNull == "null"
BodyValues == {JsUndefined, JsNull, "0", "false", "''", "{...}"}
BodyKeys == {"query", "size", "sort"}

\* The query bodies tried: any of the keys, each with any of the values.
Bodies == UNION {[keys -> BodyValues] : keys \in SUBSET BodyKeys}

\* StripBody testing the truth of the value: 0, false and '' go as well.
StripBodyFalsy(body) ==
  [key \in {k \in DOMAIN body :
              body[k] \notin {JsUndefined, JsNull, "0", "false", "''"}}
     |-> body[key]]

\* validatedQueryBody: the keys of queryBody whose value is neither
\* undefined nor null, each with its value, in a new object.
StripBody(body) ==
  [key \in {k \in DOMAIN body : body[k] # JsUndefined /\ body[k] # JsNull}
     |-> body[key]]

\* query() up to the search request: the stripped body is sent.
QueryCall ==
  /\ queryPc = "idle"
  /\ sentBody' = Some(StripBody(queryBody))
  /\ queryPc' = "awaitSearch"
  /\ UNCHANGED << queryBody, queryResult, searchOutcome, cacheVars, observed,
                  call, engine, typeVars >>

\* The response of the engine to the search of query().
QueryResponse ==
  [statusCode |-> "200", body |-> [hits |-> [hits |-> << [_source |-> Hit(1)] >>]]]

\* The success handler of query(): resp => resp.body.
OnQueryResolved(resp) == [pc |-> "resolved", result |-> Some(resp.body)]

\* OnQueryRejected throwing the error again after logging it.
OnQueryRejectedRethrows == [pc |-> "rejected", result |-> None]

\* The error handler of query(): it logs and returns nothing, so the promise
\* resolves to undefined.
OnQueryRejected == [pc |-> "resolved", result |-> None]

\* The search of query() succeeds: the promise resolves to resp.body.
QueryOk ==
  /\ queryPc = "awaitSearch"
  /\ searchOutcome' = "ok"
  /\ queryPc' = OnQueryResolved(QueryResponse).pc
  /\ queryResult' = OnQueryResolved(QueryResponse).result
  /\ UNCHANGED << queryBody, sentBody, cacheVars, observed, call, engine,
                  typeVars >>

\* The search of query() fails: the handler logs and the promise resolves
\* to undefined.
QueryFail ==
  /\ queryPc = "awaitSearch"
  /\ searchOutcome' = "error"
  /\ queryPc' = OnQueryRejected.pc
  /\ queryResult' = OnQueryRejected.result
  /\ UNCHANGED << queryBody, sentBody, cacheVars, observed, call, engine,
                  typeVars >>

\* ------------------------------------------------------------------------
\* getESIndexByType
\* ------------------------------------------------------------------------

ConfigPairs == [index : {"A", "B"}, type : {"tA", "tB"}]

\* The configurations tried: up to MaxIndices pairs, in any order, with
\* repeated types and indices.
TypeConfigs == UNION {[1..n -> ConfigPairs] : n \in 0..MaxIndices}

TypeNameArgs == {Undefined, "tA", "tB", "tC"}

\* Find taking the last matching pair.
FindLast(indices, esType) ==
  LET matching == {i \in 1..Len(indices) : indices[i].type = esType}
  IN  IF matching = {} THEN None
      ELSE Some(indices[CHOOSE i \in matching : \A j \in matching : i >= j])

\* indices.find(i => i.type === esType): the first matching pair, if any.
Find(indices, esType) ==
  LET matching == {i \in 1..Len(indices) : indices[i].type = esType}
  IN  IF matching = {} THEN None
      ELSE Some(indices[CHOOSE i \in matching : \A j \in matching : i <= j])

\* getESIndexByType(esType) on a configuration.
GetESIndexByType(indices, esType) ==
  LET index == Find(indices, esType)
  IN  IF index # None
        THEN [state |-> "returned", esType |-> esType, index |-> index[1].index,
              error |-> NoError]
        ELSE [state |-> "threw", esType |-> esType, index |-> Undefined,
              error |-> InvalidTypeError(esType)]

NoTypeResult ==
  [state |-> "none", esType |-> Undefined, index |-> Undefined, error |-> NoError]

CallGetESIndexByType(esType) ==
  /\ typeResult' = GetESIndexByType(typeConfig, esType)
  /\ UNCHANGED << typeConfig, cacheVars, observed, call, engine, queryVars >>

\* ------------------------------------------------------------------------
\* Specifications
\* ------------------------------------------------------------------------

InitCache ==
  /\ fieldTypes = None
  /\ initPc = "idle"
  /\ promiseList = NoPromises
  /\ initCount = 0
  /\ installed = None
  /\ observed = NoObservation

InitScroll ==
  /\ call = [c \in Calls |-> IdleCall]
  /\ engine = [next |-> 1, served |-> [c \in Calls |-> << >>],
               handles |-> [c \in Calls |-> << >>]]

InitQuery ==
  /\ queryBody = EmptyObject
  /\ sentBody = None
  /\ queryPc = "idle"
  /\ queryResult = None
  /\ searchOutcome = "none"

InitType ==
  /\ typeConfig = Indices
  /\ typeResult = NoTypeResult

\* The ES instance after construction: no cache, no call made.
Init == InitCache /\ InitScroll /\ InitQuery /\ InitType

\* The mapping cache and one scrollQuery call against the engine.
Next ==
  \/ InitializeStart
  \/ \E i \in 1..Len(Indices) : MappingOk(i)
  \/ \E i \in 1..Len(Indices) : MappingFail(i)
  \/ InitializeFinish
  \/ \E esIndex \in IndexArgs, esType \in TypeArgs, fields \in FieldsArgs :
       ScrollQueryStart("c1", esIndex, esType, fields)
  \/ \E n \in 0..MaxPageSize : SearchOk("c1", n)
  \/ SearchFail("c1")
  \/ \E n \in 0..MaxPageSize, rotate \in BOOLEAN : ScrollOk("c1", n, rotate)
  \/ ScrollFail("c1")
  \/ ClearOk("c1")
  \/ ClearFail("c1")

Spec == Init /\ [][Next]_vars

\* The engine answers the request call c awaits.
EngineResponds(c) ==
  \/ \E n \in 0..MaxPageSize : SearchOk(c, n)
  \/ SearchFail(c)
  \/ \E n \in 0..MaxPageSize, rotate \in BOOLEAN : ScrollOk(c, n, rotate)
  \/ ScrollFail(c)
  \/ ClearOk(c)
  \/ ClearFail(c)

\* Spec with an engine that answers every request: the promise of each
\* awaited client call is settled.
SpecLive == Init /\ [][Next]_vars /\ WF_vars(EngineResponds("c1"))

\* The arguments of the exports that run side by side: one of each
\* configured index, with and without a list of fields.
ExportArgs ==
  {[esIndex |-> "A", esType |-> "tA", fields |-> Some(<< "f2", "f1" >>)],
   [esIndex |-> "B", esType |-> "tB", fields |-> None]}

\* The mapping cache and two scrollQuery calls of the same instance, whose
\* steps interleave at their awaits.
NextTwo ==
  \/ \E c \in Calls, args \in ExportArgs :
       ScrollQueryStart(c, args.esIndex, args.esType, args.fields)
  \/ \E c \in Calls, n \in 0..MaxPageSize : SearchOk(c, n)
  \/ \E c \in Calls : SearchFail(c)
  \/ \E c \in Calls, n \in 0..MaxPageSize, rotate \in BOOLEAN :
       ScrollOk(c, n, rotate)
  \/ \E c \in Calls : ScrollFail(c)
  \/ \E c \in Calls : ClearOk(c)
  \/ \E c \in Calls : ClearFail(c)

\* The promises of one initialize() after all of them have resolved, the
\* getMapping of index i having succeeded when oks[i].
ResolvedPromises(oks) ==
  [i \in 1..Len(Indices) |->
     [state |-> "resolved", index |-> Indices[i].index,
      fieldTypes |-> ResolvedFieldTypes(Indices[i], oks[i])]]

\* The ES instance after construction and one completed initialize(), with
\* every outcome of its getMapping requests; no scrollQuery call made.
InitServing ==
  /\ \E oks \in [1..Len(Indices) -> BOOLEAN] :
       /\ promiseList = ResolvedPromises(oks)
       /\ fieldTypes = Some(ForEachAssign(EmptyObject, promiseList, 1))
  /\ initPc = "done"
  /\ initCount = 1
  /\ installed = None
  /\ observed = NoObservation
  /\ InitScroll /\ InitQuery /\ InitType

SpecTwo == InitServing /\ [][NextTwo]_vars

\* The mapping cache and the callers that read the field lists from it.
NextCache ==
  \/ InitializeStart
  \/ \E i \in 1..Len(Indices) : MappingOk(i)
  \/ \E i \in 1..Len(Indices) : MappingFail(i)
  \/ InitializeFinish
  \/ \E esIndex \in IndexArgs : CallGetESFields(esIndex)

SpecCache == Init /\ [][NextCache]_vars

\* query() on every body.
InitQueryBodies ==
  /\ InitCache /\ InitScroll /\ InitType
  /\ queryBody \in Bodies
  /\ sentBody = None
  /\ queryPc = "idle"
  /\ queryResult = None
  /\ searchOutcome = "none"

NextQuery == QueryCall \/ QueryOk \/ QueryFail

SpecQuery == InitQueryBodies /\ [][NextQuery]_vars

\* getESIndexByType on every configuration.
InitTypeConfigs ==
  /\ InitCache /\ InitScroll /\ InitQuery
  /\ typeConfig \in TypeConfigs
  /\ typeResult = NoTypeResult

NextType == \E esType \in TypeNameArgs : CallGetESIndexByType(esType)

SpecType == InitTypeConfigs /\ [][NextType]_vars

\* ------------------------------------------------------------------------
\* Properties of scrollQuery
\* ------------------------------------------------------------------------

\* The pages of a sequence of pages, joined in order.
RECURSIVE Flatten(_)
Flatten(pages) ==
  IF pages = << >> THEN << >> ELSE Head(pages) \o Flatten(Tail(pages))

Last(seq) == seq[Len(seq)]

\* The positions of the release requests in a request log.
Releases(netlog) == {k \in 1..Len(netlog) : netlog[k].op = "clearScroll"}

\* The handles the engine has returned to call c.
HandlesOf(c) == {engine.handles[c][k] : k \in 1..Len(engine.handles[c])}

\* C1: the documents scrollQuery has accumulated are at every moment exactly
\* the documents of the pages the engine served it, first page first and each
\* page in the engine's order, and a scrollQuery that returns, returns them:
\* nothing is dropped, duplicated or reordered.
C1_ReturnsConcatenation ==
  \A c \in Calls :
    /\ call[c].totalData = Flatten(engine.served[c])
    /\ call[c].pc = "returned" =>
         call[c].returned = Some(Flatten(engine.served[c]))

\* C1 happens: pages of sizes 2, 2, 0 were served and 4 documents returned.
C1_Witness ==
  /\ call["c1"].pc = "returned"
  /\ Len(engine.served["c1"]) = 3
  /\ Len(engine.served["c1"][1]) = 2
  /\ Len(engine.served["c1"][2]) = 2
  /\ Len(call["c1"].returned[1]) = 4

\* C2: a scrollQuery that returns has issued exactly one release; whenever
\* a release has been issued the zero-size page had been received (it is the
\* last page served), and the release is the last request of the call.
C2_OneReleaseAfterEmptyPage ==
  \A c \in Calls :
    LET netlog == call[c].netlog
    IN  /\ call[c].pc = "returned" => Cardinality(Releases(netlog)) = 1
        /\ Releases(netlog) # {} =>
             /\ engine.served[c] # << >>
             /\ Last(engine.served[c]) = << >>
             /\ Releases(netlog) = {Len(netlog)}

\* C2 happens: a call returned after search, two continuations and a release.
C2_Witness ==
  /\ call["c1"].pc = "returned"
  /\ [k \in 1..Len(call["c1"].netlog) |-> call["c1"].netlog[k].op]
       = << "search", "scroll", "scroll", "clearScroll" >>

\* C3: every scrollQuery that has ended with a cursor established, also by
\* the failure of a continuation, has issued a release of its last known
\* scroll id.
C3_ReleaseOnEveryExit ==
  \A c \in Calls :
    (call[c].pc \in {"failed", "returned"} /\ call[c].scrollID # None) =>
      \E k \in Releases(call[c].netlog) :
        call[c].netlog[k].scroll_id = call[c].scrollID

\* C4: every release request carries a defined scroll id that the engine
\* returned to the call; a call that got no handle issues no release.
C4_ReleaseCarriesEngineHandle ==
  \A c \in Calls :
    \A k \in Releases(call[c].netlog) :
      /\ call[c].netlog[k].scroll_id # None
      /\ call[c].netlog[k].scroll_id[1] \in HandlesOf(c)

\* C4 happens: the first search failed, the call ended and released nothing.
C4_Witness ==
  /\ call["c1"].pc = "failed"
  /\ call["c1"].error = TypeError
  /\ call["c1"].consulted
  /\ engine.handles["c1"] = << >>
  /\ [k \in 1..Len(call["c1"].netlog) |-> call["c1"].netlog[k].op] = << "search" >>

\* The cache holds a field list for esIndex.
HasCachedFields(ft, esIndex) ==
  /\ ft # None
  /\ esIndex \in DOMAIN ft[1]
  /\ ft[1][esIndex] # None

\* The names of a fields list, in order, that are not cached field names of
\* esIndex.
UnknownNames(ft, esIndex, fields) ==
  SelectSeq(fields[1], LAMBDA name : name \notin DOMAIN ft[1][esIndex][1])

\* rec is a call that failed with code 400 naming names, without request.
RejectedNaming(rec, names) ==
  /\ rec.pc = "failed"
  /\ rec.error.name = "CodedError"
  /\ rec.error.code = Some(400)
  /\ rec.error.names = names
  /\ rec.netlog = << >>

\* rec is a call with index and type names, on a field list with a name the
\* cache ft does not hold for its index.
AsksUnknownField(ft, rec) ==
  /\ ~Falsy(rec.esIndex)
  /\ ~Falsy(rec.esType)
  /\ HasCachedFields(ft, rec.esIndex)
  /\ rec.fields # None
  /\ UnknownNames(ft, rec.esIndex, rec.fields) # << >>

\* C5: a scrollQuery called after initialize() has completed, with a field
\* name that is not in the cached field list of its index, fails with code
\* 400 naming every such field and issues no request.
C5_UnknownFieldIsBadRequest ==
  [][\A c \in Calls :
       (/\ call[c].pc = "idle"
        /\ call'[c].pc # "idle"
        /\ initPc = "done"
        /\ AsksUnknownField(fieldTypes, call'[c]))
       => RejectedNaming(call'[c],
                         UnknownNames(fieldTypes, call'[c].esIndex, call'[c].fields))
    ]_vars

\* C6: a scrollQuery called with an empty or missing index or type fails
\* with code 400, has issued no request and has not read the cache, in
\* every state of the cache.
C6_BadNamesFailFirst ==
  \A c \in Calls :
    (call[c].pc # "idle" /\ (Falsy(call[c].esIndex) \/ Falsy(call[c].esType))) =>
      /\ call[c].pc = "failed"
      /\ call[c].error = InvalidNameError
      /\ call[c].error.code = Some(400)
      /\ call[c].netlog = << >>
      /\ ~call[c].consulted

\* C6 happens: a call without type failed with code 400 while the cache
\* has never been initialised.
C6_Witness ==
  /\ call["c1"].pc = "failed"
  /\ call["c1"].esIndex = "A"
  /\ call["c1"].esType = ""
  /\ call["c1"].error = InvalidNameError
  /\ fieldTypes = None

\* ------------------------------------------------------------------------
\* Properties of query
\* ------------------------------------------------------------------------

\* The keys of a body whose value is neither undefined nor null.
KeptKeys(body) == {k \in DOMAIN body : body[k] # JsUndefined /\ body[k] # JsNull}

\* C7: the body query() sends holds exactly the keys of its input whose
\* value is neither undefined nor null, each with the input's value; an
\* input without such values is sent as it is, stripping what was sent
\* changes nothing, and no step changes the caller's input.
C7_SendsBodyWithoutNulls ==
  [][/\ queryBody' = queryBody
     /\ (queryPc = "idle" /\ queryPc' # "idle") =>
          /\ sentBody' # None
          /\ DOMAIN sentBody'[1] = KeptKeys(queryBody)
          /\ \A k \in KeptKeys(queryBody) : sentBody'[1][k] = queryBody[k]
          /\ KeptKeys(queryBody) = DOMAIN queryBody => sentBody'[1] = queryBody
          /\ KeptKeys(sentBody'[1]) = DOMAIN sentBody'[1]
    ]_vars

\* C7 happens: of a null, a 0 and an undefined, the 0 alone was sent.
C7_Witness ==
  /\ queryPc # "idle"
  /\ queryBody = [query |-> JsNull, size |-> "0", sort |-> JsUndefined]
  /\ sentBody = Some([size |-> "0"])

\* ------------------------------------------------------------------------
\* Properties of the mapping cache
\* ------------------------------------------------------------------------

\* C8: after an initialize() in which the mapping fetch of A succeeded and
\* that of B failed, the cache holds the field types of A and has no key B.
C8_NoEntryForFailedIndex ==
  (/\ initPc = "done"
   /\ promiseList[1].fieldTypes # None
   /\ promiseList[2].fieldTypes = None)
  => /\ fieldTypes # None
     /\ "A" \in DOMAIN fieldTypes[1]
     /\ fieldTypes[1]["A"] = Some([f1 |-> "keyword", f2 |-> "long"])
     /\ "B" \notin DOMAIN fieldTypes[1]

\* C9: what getESFields returned while an initialize() was in progress is
\* what it returns on the map installed before that run or on the map the
\* run installed.
C9_NeverHalfBuilt ==
  (initPc = "done" /\ observed.taken /\ observed.during) =>
    \/ observed.result = GetESFields(installed, observed.esIndex)
    \/ observed.result = GetESFields(fieldTypes, observed.esIndex)

\* ------------------------------------------------------------------------
\* Properties of getESIndexByType
\* ------------------------------------------------------------------------

\* C10: getESIndexByType(t) returns the index of the first configured pair
\* of type t, and fails with code 400 naming t when there is none; what it
\* returns is the index of a configured pair.
C10_IndexOfFirstPairOfType ==
  typeResult.state # "none" =>
    LET t == typeResult.esType
        matching == {i \in 1..Len(typeConfig) : typeConfig[i].type = t}
    IN  /\ matching # {} =>
             /\ typeResult.state = "returned"
             /\ \E i \in matching :
                  /\ \A j \in 1..(i - 1) : j \notin matching
                  /\ typeResult.index = typeConfig[i].index
        /\ matching = {} =>
             /\ typeResult.state = "threw"
             /\ typeResult.error.name = "CodedError"
             /\ typeResult.error.code = Some(400)
             /\ typeResult.error.names = << t >>
        /\ typeResult.state = "returned" =>
             \E i \in 1..Len(typeConfig) : typeConfig[i].index = typeResult.index

\* C10 happens: two pairs have the type asked for and the first one's index
\* was returned.
C10_Witness ==
  /\ typeConfig = << [index |-> "B", type |-> "tA"], [index |-> "A", type |-> "tA"] >>
  /\ typeResult.state = "returned"
  /\ typeResult.esType = "tA"
  /\ typeResult.index = "B"


\* A continuation of call c was rejected: its last request is a continuation
\* that is no longer awaited.
ContinuationFailed(c) ==
  /\ call[c].netlog # << >>
  /\ Last(call[c].netlog).op = "scroll"
  /\ call[c].pc # "awaitScroll"

\* C11: a scrollQuery whose continuation was rejected has failed with the
\* engine's error and returned nothing; a scrollQuery that returned had a
\* zero-size batch as the last response it received.
C11_FailedContinuationIsFailure ==
  \A c \in Calls :
    /\ ContinuationFailed(c) =>
         /\ call[c].pc = "failed"
         /\ call[c].error = ResponseError
         /\ call[c].returned = None
    /\ call[c].returned # None =>
         /\ call[c].pc = "returned"
         /\ call[c].batchSize = 0
         /\ engine.served[c] # << >>
         /\ Last(engine.served[c]) = << >>
         /\ Len(call[c].netlog) = Len(engine.served[c]) + 1

\* C11 happens: a continuation was rejected after documents had been merged
\* and the call failed without returning them.
C11_Witness ==
  /\ ContinuationFailed("c1")
  /\ call["c1"].totalData # << >>
  /\ call["c1"].pc = "failed"
  /\ call["c1"].returned = None


\* C12: query() never rejects: when its search failed the promise resolved
\* to undefined, and when its search succeeded it resolved to the body of
\* the response.
C12_QueryResolvesOnFailure ==
  /\ queryPc \in {"idle", "awaitSearch", "resolved"}
  /\ searchOutcome = "error" => (queryPc = "resolved" /\ queryResult = None)
  /\ searchOutcome = "ok" =>
       (queryPc = "resolved" /\ queryResult = Some(QueryResponse.body))
  /\ searchOutcome = "none" => queryResult = None

\* C12 happens: the search of a query failed and the query resolved to
\* undefined.
C12_Witness ==
  /\ searchOutcome = "error"
  /\ queryPc = "resolved"
  /\ queryResult = None
  /\ sentBody # None


\* The positions of the page requests (search or continuation) in a request log.
PageRequests(netlog) ==
  {k \in 1..Len(netlog) : netlog[k].op \in {"search", "scroll"}}

Continuations(netlog) == {k \in 1..Len(netlog) : netlog[k].op = "scroll"}

\* C13: the k-th request of a call is answered by the k-th page.  After a
\* page of size zero no page request follows; after a non-empty page the
\* next request is a continuation; a call that returned has issued as many
\* continuations as it received non-empty pages.
C13_StopsAtEmptyPage ==
  \A c \in Calls :
    LET pages == engine.served[c]
        netlog == call[c].netlog
    IN  /\ \A k \in 1..Len(pages) :
             /\ Len(pages[k]) = 0 =>
                  /\ k = Len(pages)
                  /\ \A j \in PageRequests(netlog) : j <= k
             /\ Len(pages[k]) > 0 =>
                  /\ Len(netlog) >= k + 1
                  /\ netlog[k + 1].op = "scroll"
        /\ call[c].pc = "returned" =>
             Cardinality(Continuations(netlog)) = NonEmptyPages(pages)

\* C13 happens: a call returned after two non-empty pages and an empty one,
\* with two continuations.
C13_Witness ==
  /\ call["c1"].pc = "returned"
  /\ NonEmptyPages(engine.served["c1"]) = 2
  /\ Len(engine.served["c1"]) = 3
  /\ Cardinality(Continuations(call["c1"].netlog)) = 2


\* C14: the first request of a call is its only search and carries no scroll
\* id; every later request, continuation or release, carries the scroll id
\* of the response before it, and so never one that a later response
\* replaced.
C14_PresentsLatestHandle ==
  \A c \in Calls :
    LET netlog == call[c].netlog
        handles == engine.handles[c]
    IN  \A k \in 1..Len(netlog) :
          /\ netlog[k].op = "search" <=> k = 1
          /\ k = 1 => netlog[k].scroll_id = None
          /\ k > 1 =>
               /\ Len(handles) >= k - 1
               /\ netlog[k].scroll_id = Some(handles[k - 1])
               /\ \A j \in 1..(k - 2) :
                    handles[j] # handles[k - 1] =>
                      netlog[k].scroll_id # Some(handles[j])

\* C14 happens: the engine rotated the scroll id on both continuations and
\* the release carried the third one.
C14_Witness ==
  /\ call["c1"].pc = "returned"
  /\ Len(engine.handles["c1"]) = 3
  /\ engine.handles["c1"][1] # engine.handles["c1"][2]
  /\ engine.handles["c1"][2] # engine.handles["c1"][3]
  /\ Last(call["c1"].netlog) = Request("clearScroll", Some(engine.handles["c1"][3]))


\* C15: a call issues at most one release, and no request that follows a
\* release in its log is a continuation or a release, or carries the
\* released scroll id.
C15_NothingAfterRelease ==
  \A c \in Calls :
    LET netlog == call[c].netlog
    IN  /\ Cardinality(Releases(netlog)) <= 1
        /\ \A k \in Releases(netlog) :
             \A j \in (k + 1)..Len(netlog) :
               /\ netlog[j].scroll_id # netlog[k].scroll_id
               /\ netlog[j].op \notin {"scroll", "clearScroll"}

\* C15 happens: a call released its cursor after a continuation and ended.
C15_Witness ==
  /\ call["c1"].pc \in {"returned", "failed"}
  /\ Len(call["c1"].netlog) >= 3
  /\ Releases(call["c1"].netlog) = {Len(call["c1"].netlog)}
  /\ Continuations(call["c1"].netlog) # {}


\* C16: after an initialize() in which the mapping fetch of A succeeded and
\* that of B failed, the field types of A are returned, getESFields("A")
\* returns the record of A with its field names, and a scrollQuery on A with
\* fields of A passes the validation.
C16_FailureOfBLeavesAUsable ==
  (/\ initPc = "done"
   /\ promiseList[1].fieldTypes # None
   /\ promiseList[2].fieldTypes = None)
  => /\ GetESFieldTypeMappingByIndex(fieldTypes, "A")
          = [threw |-> FALSE, value |-> Some([f1 |-> "keyword", f2 |-> "long"])]
     /\ GetESFields(fieldTypes, "A")
          = [threw |-> FALSE,
             value |-> ("A" :> [index |-> "A", type |-> "tA", fields |-> {"f1", "f2"}])]
     /\ Validate(fieldTypes, "A", "tA", Some(<< "f2", "f1" >>)).error = NoError


\* C17: while initialize() waits, the fetch of every configured index has
\* been started and nothing is stored yet; when it has completed, every
\* fetch has completed and the cache holds, under each configured index,
\* what the fetch of that index yielded, whatever the order of completion.
C17_FanOutFanIn ==
  /\ initPc = "awaiting" =>
       /\ \A i \in 1..Len(Indices) :
            promiseList[i].state \in {"pending", "resolved"}
       /\ fieldTypes = Some(EmptyObject)
  /\ initPc = "done" =>
       /\ \A i \in 1..Len(Indices) : promiseList[i].state = "resolved"
       /\ DOMAIN fieldTypes[1] = {Indices[i].index : i \in 1..Len(Indices)}
       /\ \A i \in 1..Len(Indices) :
            fieldTypes[1][Indices[i].index]
              = ResolvedFieldTypes(Indices[i], promiseList[i].fieldTypes # None)

\* C17 happens: the fetch of the second index has completed before that of
\* the first, and initialize() still waits with nothing stored.
C17_Witness ==
  /\ initPc = "awaiting"
  /\ promiseList[1].state = "pending"
  /\ promiseList[2].state = "resolved"
  /\ promiseList[2].fieldTypes # None
  /\ fieldTypes = Some(EmptyObject)


\* C18: a scrollQuery called while initialize() has not been called or has
\* not completed fails at once without any request, and a failed call stays
\* failed: it returns no documents.
C18_NoValidationBeforeInitialize ==
  [][\A c \in Calls :
       /\ (call[c].pc = "idle" /\ call'[c].pc # "idle" /\ initPc # "done") =>
            /\ call'[c].pc = "failed"
            /\ call'[c].netlog = << >>
            /\ call'[c].returned = None
       /\ call[c].pc = "failed" => call'[c] = call[c]
    ]_vars

\* C18 happens: a scrollQuery on a configured index was called before
\* initialize() and failed on reading the cache, without any request.
C18_Witness ==
  /\ initPc = "idle"
  /\ call["c1"].pc = "failed"
  /\ call["c1"].esIndex = "A"
  /\ call["c1"].esType = "tA"
  /\ call["c1"].consulted
  /\ call["c1"].error = TypeError
  /\ call["c1"].netlog = << >>


\* C19: with an engine that answers every request and ends every cursor
\* with a zero-size page, a scrollQuery that was called ends, returned or
\* failed; and one that returned had issued the release of its last scroll
\* id.
C19_TerminatesCleaned ==
  /\ \A c \in Calls :
       (call[c].pc # "idle") ~> (call[c].pc \in {"returned", "failed"})
  /\ [](\A c \in Calls :
          call[c].pc = "returned" =>
            /\ call[c].netlog # << >>
            /\ Last(call[c].netlog) = Request("clearScroll", call[c].scrollID)
            /\ call[c].scrollID # None)

\* C19 happens: a call went through two non-empty pages, released its
\* cursor and returned.
C19_Witness ==
  /\ call["c1"].pc = "returned"
  /\ NonEmptyPages(engine.served["c1"]) = MaxPages
  /\ Last(call["c1"].netlog).op = "clearScroll"


\* The requests of a log that present a scroll id.
Presenting(netlog) ==
  {k \in 1..Len(netlog) : netlog[k].op \in {"scroll", "clearScroll"}}

\* C20: with two scrollQuery calls of one instance interleaved at their
\* awaits, every scroll id a call presents, in a continuation or in its
\* release, is one the engine returned to that call and not one of the other
\* call; the documents a call has accumulated and returns are those of the
\* pages served to it, all of the index it searches; and a call has issued at
\* most one request beyond those the engine has answered with a page.
C20_CallsDoNotShare ==
  \A c \in Calls :
    /\ \A k \in Presenting(call[c].netlog) :
         /\ call[c].netlog[k].scroll_id # None
         /\ call[c].netlog[k].scroll_id[1] \in HandlesOf(c)
         /\ \A d \in Calls \ {c} :
              call[c].netlog[k].scroll_id[1] \notin HandlesOf(d)
    /\ call[c].totalData = Flatten(engine.served[c])
    /\ \A j \in 1..Len(call[c].totalData) :
         call[c].totalData[j].index = call[c].esIndex
    /\ call[c].pc = "returned" => call[c].returned = Some(call[c].totalData)
    /\ call[c].currentBatch # None =>
         call[c].currentBatch[1]._scroll_id = Last(engine.handles[c])
    /\ call[c].netlog # << >> =>
         Len(call[c].netlog) = Len(engine.served[c]) + 1

\* C20 happens: two exports of different indices have both returned
\* documents, the second having started and received pages between the
\* first and the last response of the first.
C20_Witness ==
  /\ call["c1"].pc = "returned" /\ call["c2"].pc = "returned"
  /\ call["c1"].esIndex = "A" /\ call["c2"].esIndex = "B"
  /\ NonEmptyPages(engine.served["c1"]) = MaxPages
  /\ NonEmptyPages(engine.served["c2"]) = MaxPages
  /\ engine.handles["c1"][1] < engine.handles["c2"][1]
  /\ Last(engine.handles["c2"]) < Last(engine.handles["c1"])
  /\ Last(engine.handles["c2"]) # engine.handles["c2"][1]

====
